---------------------------- MODULE Spec2Model ----------------------------
(***************************************************************************)
(* Model of homework.py: the fitness tracker's workout classes (Training,  *)
(* Running, SportsWalking, Swimming), the InfoMessage formatter, the       *)
(* read_package factory and the __main__ driver loop.                      *)
(*                                                                         *)
(* Numbers.  Python computes with floats, and so does the model: a number  *)
(* is an IEEE-754 binary64 value and +, -, *, /, //, ** and the '.3f'      *)
(* format are computed as CPython computes them, rounding included         *)
(* (157.50000000000003, not 157.5).  An int is exact whatever its size:    *)
(* the product of two ints is an int, and an int becomes a float where it  *)
(* meets one.  IntVal(n) is the int n, DInt(n) the float n.0 and Dec(n, d) *)
(* the float nearest to n/d.  Overflow, subnormal values, infinities and   *)
(* NaN are not modelled.                                                   *)
(*                                                                         *)
(* Objects.  An instance is a record: cls (the class name) and the fields  *)
(* its __init__ assigns.  A method is an operator from the instance to an  *)
(* outcome [exc, msg, val]: the exception raised ("none" when it           *)
(* returns), the parts its text interpolates, and the value returned.  No  *)
(* method of the code assigns to a field of self.                          *)
(***************************************************************************)
EXTENDS Integers, Sequences, FiniteSets, TLC

VARIABLES
    workout_type,   \* read_package's first argument (harness)
    data,           \* read_package's second argument (harness)
    training,       \* the instance under use, or NoObj
    raised,         \* the exception that ended the last call, or "none"
    message,        \* the text an exception carries, as its parts
    called,         \* the last method called on training
    result,         \* what that method returned
    infos,          \* the InfoMessages show_training_info has returned
    packages,       \* the driver's list of (workout_type, data)
    idx,            \* the driver loop's position in packages, from 1
    pc,             \* where the harness or the driver is
    output,         \* the lines printed so far
    libm            \* what the C library's pow has returned, by argument

vars == <<workout_type, data, training, raised, message, called, result,
          infos, packages, idx, pc, output, libm>>

---------------------------------------------------------------------------
(* Python floats: IEEE-754 binary64 values.  Every operation returns the   *)
(* float nearest to the exact result, a tie going to the one whose         *)
(* significand is even.  TLC's integers are 32 bits wide, so significands  *)
(* (up to 53 bits) and exact results (up to 106) are kept as sequences of  *)
(* digits.                                                                 *)


Abs(n) == IF n < 0 THEN -n ELSE n

Max(a, b) == IF a < b THEN b ELSE a

Min(a, b) == IF a < b THEN a ELSE b

\* Natural numbers of any size: the sequence of base-2^15 digits, the least
\* significant first, without leading zeros (zero is the empty sequence).
LimbBits == 15

LimbBase == 2^LimbBits

RECURSIVE BTrim(_)
BTrim(a) ==
    IF a = <<>> THEN a
    ELSE IF a[Len(a)] = 0 THEN BTrim(SubSeq(a, 1, Len(a) - 1))
    ELSE a

RECURSIVE BFromInt(_)
BFromInt(n) ==
    IF n = 0 THEN <<>> ELSE <<n % LimbBase>> \o BFromInt(n \div LimbBase)

Head0(a) == IF a = <<>> THEN 0 ELSE a[1]

Tail0(a) == IF a = <<>> THEN a ELSE Tail(a)

RECURSIVE BAddC(_, _, _)
BAddC(a, b, c) ==
    IF a = <<>> /\ b = <<>>
    THEN BFromInt(c)
    ELSE <<(Head0(a) + Head0(b) + c) % LimbBase>>
            \o BAddC(Tail0(a), Tail0(b), (Head0(a) + Head0(b) + c) \div LimbBase)

BAdd(a, b) == BAddC(a, b, 0)

\* a - b - c for a >= b + c, digit by digit with the borrow c.
RECURSIVE BSubC(_, _, _)
BSubC(a, b, c) ==
    IF a = <<>>
    THEN <<>>
    ELSE <<(a[1] - Head0(b) - c) % LimbBase>>
            \o BSubC(Tail(a), Tail0(b), IF a[1] - Head0(b) - c < 0 THEN 1 ELSE 0)

BSub(a, b) == BTrim(BSubC(a, b, 0))

RECURSIVE BCmpAt(_, _, _)
BCmpAt(a, b, i) ==
    IF i = 0 THEN 0
    ELSE IF a[i] < b[i] THEN -1
    ELSE IF a[i] > b[i] THEN 1
    ELSE BCmpAt(a, b, i - 1)

\* -1, 0 or 1 as a is below, equal to or above b.
BCmp(a, b) ==
    IF Len(a) < Len(b) THEN -1
    ELSE IF Len(a) > Len(b) THEN 1
    ELSE BCmpAt(a, b, Len(a))

\* a * k + c for one digit k and a carry c.
RECURSIVE BMulSmall(_, _, _)
BMulSmall(a, k, c) ==
    IF a = <<>>
    THEN BFromInt(c)
    ELSE <<(a[1] * k + c) % LimbBase>>
            \o BMulSmall(Tail(a), k, (a[1] * k + c) \div LimbBase)

\* a * 2^15
ShiftLimb(a) == IF a = <<>> THEN a ELSE <<0>> \o a

RECURSIVE BMul(_, _)
BMul(a, b) ==
    IF a = <<>> \/ b = <<>>
    THEN <<>>
    ELSE BAdd(BMulSmall(a, b[1], 0), ShiftLimb(BMul(a, Tail(b))))

\* <<a \div k, a % k>> for one digit k, from the top digit a[i] down; r is
\* the remainder so far and q the digits of the quotient so far.
RECURSIVE BDivSmallAt(_, _, _, _, _)
BDivSmallAt(a, k, i, r, q) ==
    IF i = 0
    THEN <<BTrim(q), BFromInt(r)>>
    ELSE BDivSmallAt(a, k, i - 1, (r * LimbBase + a[i]) % k,
                     <<(r * LimbBase + a[i]) \div k>> \o q)

BDivSmall(a, k) == BDivSmallAt(a, k, Len(a), 0, <<>>)

RECURSIVE IntBitLen(_)
IntBitLen(n) == IF n = 0 THEN 0 ELSE 1 + IntBitLen(n \div 2)

\* The number of binary digits of a.
BBitLen(a) ==
    IF a = <<>> THEN 0 ELSE LimbBits * (Len(a) - 1) + IntBitLen(a[Len(a)])

RECURSIVE Zeros(_)
Zeros(n) == IF n = 0 THEN <<>> ELSE <<0>> \o Zeros(n - 1)

\* a * 2^n
BShl(a, n) ==
    IF a = <<>> THEN a
    ELSE Zeros(n \div LimbBits) \o BMulSmall(a, 2^(n % LimbBits), 0)

BIsOdd(a) == a # <<>> /\ a[1] % 2 = 1

\* <<a \div 2^n, a % 2^n>> whatever the size of n.
BShr(a, n) ==
    IF n \div LimbBits >= Len(a)
    THEN <<<<>>, a>>
    ELSE [BDivSmall(SubSeq(a, n \div LimbBits + 1, Len(a)), 2^(n % LimbBits))
            EXCEPT ![2] = BTrim(SubSeq(a, 1, n \div LimbBits) \o @)]

\* The digit of weight 2^(15*(i-1)) of a.
Limb(a, i) == IF i <= Len(a) THEN a[i] ELSE 0

\* a * k for one digit k.
BScale(a, k) == IF k = 0 THEN <<>> ELSE BMulSmall(a, k, 0)

\* Long division by a divisor d of several digits whose top digit is at
\* least 2^14, one digit of the quotient at a time.  r is what is left of
\* the dividend above the digit a[i], q the digits of the quotient so far.
\* A digit is estimated from the top digits of r and d (never too small,
\* and at most 2 too large) and lowered until d times it fits in r.
QEst(r, d) ==
    Min(LimbBase - 1,
        (Limb(r, Len(d) + 1) * LimbBase + Limb(r, Len(d))) \div d[Len(d)])

RECURSIVE QFix(_, _, _)
QFix(r, d, qd) ==
    IF BCmp(BScale(d, qd), r) > 0 THEN QFix(r, d, qd - 1) ELSE qd

RECURSIVE BLongDivAt(_, _, _, _, _)
LongDivTake(a, d, i, r, q, qd) ==
    BLongDivAt(a, d, i - 1, BSub(r, BScale(d, qd)), <<qd>> \o q)

LongDivDigit(a, d, i, r, q) == LongDivTake(a, d, i, r, q, QFix(r, d, QEst(r, d)))

BLongDivAt(a, d, i, r, q) ==
    IF i = 0
    THEN <<BTrim(q), r>>
    ELSE LongDivDigit(a, d, i, BTrim(<<a[i]>> \o r), q)

BLongDiv(a, d) == BLongDivAt(a, d, Len(a), <<>>, <<>>)

\* The quotient and remainder of a * 2^sh by d * 2^sh, brought back to
\* those of a by d.
BDivScaled(qr, sh) == <<qr[1], BShr(qr[2], sh)[1]>>

BDivShift(a, d, sh) == BDivScaled(BLongDiv(BShl(a, sh), BShl(d, sh)), sh)

\* <<a \div d, a % d>> for d > 0.
BDivMod(a, d) ==
    IF Len(d) = 1
    THEN BDivSmall(a, d[1])
    ELSE BDivShift(a, d, LimbBits - IntBitLen(d[Len(d)]))

\* A number is its type t ("int" or "float"), its sign s (1 or -1), its
\* significand m (odd, or zero) and its exponent e: the value s * m * 2^e.
\* A float's significand has at most 53 bits and its zero keeps its sign;
\* an int's has as many as the int takes.  The range of a float's exponent
\* is not modelled: no value here overflows or is subnormal.
SigBits == 53

RECURSIVE IntTrailingZeros(_)
IntTrailingZeros(n) == IF n % 2 = 1 THEN 0 ELSE 1 + IntTrailingZeros(n \div 2)

\* m * 2^e with the trailing zero digits of m moved into e.
RECURSIVE DNorm(_, _, _)
DNorm(s, m, e) ==
    IF m = <<>> THEN [t |-> "float", s |-> s, m |-> m, e |-> 0]
    ELSE IF m[1] = 0 THEN DNorm(s, Tail(m), e + LimbBits)
    ELSE IF m[1] % 2 = 0
    THEN [t |-> "float", s |-> s,
          m |-> BDivSmall(m, 2^IntTrailingZeros(m[1]))[1],
          e |-> e + IntTrailingZeros(m[1])]
    ELSE [t |-> "float", s |-> s, m |-> m, e |-> e]

\* q2 holds one binary digit more than the significand keeps; rest is what
\* lies below it.  Round to nearest, a tie to even.
RoundLast(s, q2, rest, e) ==
    IF BIsOdd(q2) /\ (rest \/ BIsOdd(BDivSmall(q2, 2)[1]))
    THEN DNorm(s, BAddC(BDivSmall(q2, 2)[1], <<>>, 1), e)
    ELSE DNorm(s, BDivSmall(q2, 2)[1], e)

RoundShifted(s, qr, sticky, e) == RoundLast(s, qr[1], sticky \/ qr[2] # <<>>, e)

\* The float nearest to s * m * 2^e (plus something below the last digit
\* of m when sticky).
RoundNat(s, m, e, sticky) ==
    IF BBitLen(m) <= SigBits
    THEN DNorm(s, m, e)
    ELSE RoundShifted(s, BShr(m, BBitLen(m) - SigBits - 1), sticky,
                      e + BBitLen(m) - SigBits)

DZero(s) == [t |-> "float", s |-> s, m |-> <<>>, e |-> 0]

DIsZero(x) == x.m = <<>>

\* The float n.0
DInt(n) == DNorm(IF n < 0 THEN -1 ELSE 1, BFromInt(Abs(n)), 0)

\* The int n
IntVal(n) == [DInt(n) EXCEPT !.t = "int"]

\* float(x): an int becomes the float nearest to it, a tie going to even.
Float(x) == IF x.t = "int" THEN RoundNat(x.s, x.m, x.e, FALSE) ELSE x

DNeg(x) == [x EXCEPT !.s = -x.s]

DMul(x, y) == RoundNat(x.s * y.s, BMul(x.m, y.m), x.e + y.e, FALSE)

\* The sum of two nonzero floats whose significands a and b are aligned
\* to the exponent e.
AddAligned(x, y, a, b, e) ==
    IF x.s = y.s THEN RoundNat(x.s, BAdd(a, b), e, FALSE)
    ELSE IF BCmp(a, b) > 0 THEN RoundNat(x.s, BSub(a, b), e, FALSE)
    ELSE IF BCmp(a, b) < 0 THEN RoundNat(y.s, BSub(b, a), e, FALSE)
    ELSE DZero(1)

DAdd(x, y) ==
    IF DIsZero(x) THEN (IF DIsZero(y) /\ x.s # y.s THEN DZero(1) ELSE y)
    ELSE IF DIsZero(y) THEN x
    ELSE AddAligned(x, y, BShl(x.m, x.e - Min(x.e, y.e)),
                    BShl(y.m, y.e - Min(x.e, y.e)), Min(x.e, y.e))

DSub(x, y) == DAdd(x, DNeg(y))

DIsNeg(x) == ~DIsZero(x) /\ x.s = -1

DLess(x, y) == DIsNeg(DSub(x, y))

\* x / y for y # 0: the quotient of the significands to two digits more
\* than are kept, then rounded.
DivShifted(s, qr, e) == RoundNat(s, qr[1], e, qr[2] # <<>>)

DivBy(x, y, k) ==
    DivShifted(x.s * y.s, BDivMod(BShl(x.m, k), y.m), x.e - y.e - k)

DDiv(x, y) ==
    IF DIsZero(x) THEN DZero(x.s * y.s)
    ELSE DivBy(x, y, Max(0, SigBits + 2 + BBitLen(y.m) - BBitLen(x.m)))

\* The float nearest to the decimal n/d: what a literal or a parsed number is.
Dec(n, d) == DDiv(DInt(n), DInt(d))

\* C's fmod(x, y): the exact remainder, with the sign of x.
FmodAligned(x, a, b, e) == DNorm(x.s, BDivMod(a, b)[2], e)

DFmod(x, y) ==
    IF DIsZero(x) THEN x
    ELSE FmodAligned(x, BShl(x.m, x.e - Min(x.e, y.e)),
                     BShl(y.m, y.e - Min(x.e, y.e)), Min(x.e, y.e))

\* C's floor(x)
FloorShifted(x, qr) ==
    IF x.s = -1 /\ qr[2] # <<>>
    THEN DNorm(x.s, BAddC(qr[1], <<>>, 1), 0)
    ELSE DNorm(x.s, qr[1], 0)

DFloor(x) == IF x.e >= 0 THEN x ELSE FloorShifted(x, BShr(x.m, -x.e))

\* float.__floordiv__, as CPython's float_floor_div computes it.
FloorAdjust(div, floordiv) ==
    IF DLess(Dec(1, 2), DSub(div, floordiv))
    THEN DAdd(floordiv, DInt(1))
    ELSE floordiv

FloorOfDiv(div, vx, wx) ==
    IF DIsZero(div) THEN DZero(vx.s * wx.s) ELSE FloorAdjust(div, DFloor(div))

FloorDivMod(vx, wx, mod) ==
    IF ~DIsZero(mod) /\ (wx.s = -1) # (mod.s = -1)
    THEN FloorOfDiv(DSub(DDiv(DSub(vx, mod), wx), DInt(1)), vx, wx)
    ELSE FloorOfDiv(DDiv(DSub(vx, mod), wx), vx, wx)

DFloorDiv(vx, wx) == FloorDivMod(vx, wx, DFmod(vx, wx))

RECURSIVE BPow(_, _)
BPow(a, k) == IF k = 0 THEN <<1>> ELSE BMul(a, BPow(a, k - 1))

\* The float next to s * m * 2^e on the side rnd names: "down" is toward
\* zero and "up" away from it.  A value that is a float is itself.
Truncated(s, qr, e, rnd) ==
    IF qr[2] # <<>> /\ rnd = "up"
    THEN DNorm(s, BAddC(qr[1], <<>>, 1), e)
    ELSE DNorm(s, qr[1], e)

RoundToward(s, m, e, rnd) ==
    IF BBitLen(m) <= SigBits
    THEN DNorm(s, m, e)
    ELSE Truncated(s, BShr(m, BBitLen(m) - SigBits), e + BBitLen(m) - SigBits,
                   rnd)

\* The ways the C library's pow may round a power that is not a float.
PowRoundings == {"down", "up"}

\* What pow(x, k) may return for a float x and an int k > 0.  pow is not
\* correctly rounded: when the exact power is not a float the library
\* returns one of the two floats around it (glibc's, the nearer one for
\* most arguments but not for all, and so the upper one for some
\* arguments and the lower one for others).
PowRounded(x, k, rnd) ==
    RoundToward(IF x.s = -1 /\ k % 2 = 1 THEN -1 ELSE 1,
                IF DIsZero(x) THEN <<>> ELSE BPow(x.m, k), x.e * k, rnd)

PowValues(x, k) == {PowRounded(x, k, rnd) : rnd \in PowRoundings}

\* pow is a function: called again with the same arguments it returns the
\* same float.  lm is the part of it that has been called, a function
\* from <<x, k>> to the float returned.  The ways it goes on when the
\* calls in args are made:
PowAnswers(lm, args) ==
    {f \in [DOMAIN lm \cup args
              -> UNION {PowValues(a[1], a[2]) : a \in DOMAIN lm \cup args}] :
        \A a \in DOMAIN f :
            IF a \in DOMAIN lm THEN f[a] = lm[a]
            ELSE f[a] \in PowValues(a[1], a[2])}

\* pow before any call.
NoCalls == [a \in {} |-> DZero(1)]

\* x ** k for a float x and an int k >= 0.  CPython's float_pow returns 1.0
\* for k = 0 and otherwise what the C library's pow(x, float(k)) returns.
DPow(x, k, lm) == IF k = 0 THEN DInt(1) ELSE lm[<<x, k>>]

---------------------------------------------------------------------------
(* Python's arithmetic on ints and floats.  With two ints * is exact and   *)
(* / is the float nearest to the exact quotient; otherwise an int operand  *)
(* becomes a float first and the operation is the floats'.                 *)

\* int.__mul__
IntMul(x, y) ==
    IF x.m = <<>> \/ y.m = <<>> THEN IntVal(0)
    ELSE [DNorm(x.s * y.s, BMul(x.m, y.m), x.e + y.e) EXCEPT !.t = "int"]

\* x * y
Mul(x, y) ==
    IF x.t = "int" /\ y.t = "int" THEN IntMul(x, y)
    ELSE DMul(Float(x), Float(y))

\* x / y for y # 0
TrueDiv(x, y) ==
    IF x.t = "int" /\ y.t = "int" THEN DDiv(x, y)
    ELSE DDiv(Float(x), Float(y))

\* x + y, x - y, x // y and x ** k where one operand at least is a float,
\* as it is wherever the code has these operations.
Add(x, y) == DAdd(Float(x), Float(y))

Sub(x, y) == DSub(Float(x), Float(y))

FloorDiv(x, y) == DFloorDiv(Float(x), Float(y))

Pow(x, k, lm) == DPow(Float(x), k, lm)

---------------------------------------------------------------------------
(* Values and outcomes.                                                    *)

NoObj == [cls |-> "None"]

NoVal == "None"

\* A call that returns v.
Return(v) == [exc |-> "none", msg |-> <<>>, val |-> v]

\* A call that raises exception e, whose text interpolates parts.
Raise(e, parts) == [exc |-> e, msg |-> parts, val |-> NoVal]

---------------------------------------------------------------------------
(* class Training and its subclasses: the class attributes.                *)

MIN_IN_HOUR == 60

M_IN_KM == 1000

\* Training.LEN_STEP = 0.65
Training_LEN_STEP == Dec(65, 100)

\* Swimming.LEN_STEP = 1.38
Swimming_LEN_STEP == Dec(138, 100)

\* The base class's step length for every class.
LEN_STEP_BaseForAll(cls) == Training_LEN_STEP

\* self.LEN_STEP resolves through the instance's class.
LEN_STEP(cls) ==
    IF cls = "Swimming" THEN Swimming_LEN_STEP ELSE Training_LEN_STEP

\* Running
COEF_CALORIE_1 == 18

COEF_CALORIE_2 == 20

\* SportsWalking
COEFF_CALORIE_1 == Dec(35, 1000)

COEFF_CALORIE_2 == Dec(29, 1000)

COEFF_SQUARE == 2

\* Swimming
COEF_SWM == 2

COEF_CALORIE == Dec(11, 10)

---------------------------------------------------------------------------
(* The constructors.                                                       *)

TrainingInit(cls, action, duration, weight) ==
    [cls |-> cls, action |-> action, duration |-> duration, weight |-> weight]

SportsWalkingInit(action, duration, weight, height) ==
    TrainingInit("SportsWalking", action, duration, weight)
        @@ [height |-> height]

SwimmingInit(action, duration, weight, length_pool, count_pool) ==
    TrainingInit("Swimming", action, duration, weight)
        @@ [length_pool |-> length_pool, count_pool |-> count_pool]

\* The number of positional arguments cls(...) takes.
Arity(cls) ==
    CASE cls = "SportsWalking" -> 4
      [] cls = "Swimming" -> 5
      [] OTHER -> 3

\* cls(*args): Python raises TypeError unless args has exactly the
\* constructor's positional parameters; otherwise they bind in order.
New(cls, args) ==
    IF Len(args) # Arity(cls)
    THEN Raise("TypeError", <<>>)
    ELSE CASE cls = "SportsWalking" ->
                Return(SportsWalkingInit(args[1], args[2], args[3], args[4]))
           [] cls = "Swimming" ->
                Return(SwimmingInit(args[1], args[2], args[3], args[4],
                                    args[5]))
           [] OTHER ->
                Return(TrainingInit(cls, args[1], args[2], args[3]))

---------------------------------------------------------------------------
(* The methods, statement by statement.  A division raises                 *)
(* ZeroDivisionError when its divisor is zero.                             *)

\* Training.get_distance
get_distance(self) ==
    LET distance_meters == Mul(self.action, LEN_STEP(self.cls))
        distance == TrueDiv(distance_meters, IntVal(M_IN_KM))
    IN  Return(distance)

\* Training.get_mean_speed
Training_get_mean_speed(self) ==
    IF DIsZero(self.duration)
    THEN Raise("ZeroDivisionError", <<>>)
    ELSE Return(TrueDiv(get_distance(self).val, self.duration))

\* Swimming.get_mean_speed
Swimming_get_mean_speed(self) ==
    LET distance_meters == Mul(self.length_pool, self.count_pool)
        distance_km == TrueDiv(distance_meters, IntVal(M_IN_KM))
    IN  IF DIsZero(self.duration)
        THEN Raise("ZeroDivisionError", <<>>)
        ELSE Return(TrueDiv(distance_km, self.duration))

\* Swimming's override left out: the base method for every class.
get_mean_speed_BaseForAll(self) == Training_get_mean_speed(self)

\* self.get_mean_speed(): the instance's class decides.
get_mean_speed(self) ==
    IF self.cls = "Swimming"
    THEN Swimming_get_mean_speed(self)
    ELSE Training_get_mean_speed(self)

\* Training.get_spent_calories
Training_get_spent_calories(self) ==
    Raise("NotImplementedError", <<self.cls>>)

\* Running.get_spent_calories from the mean speed ms on, with the second
\* coefficient added instead of subtracted.
Running_calories_Plus(self, ms) ==
    LET duration_min == Mul(self.duration, IntVal(MIN_IN_HOUR))
        calc_speed_coef == Mul(IntVal(COEF_CALORIE_1), ms)
        calc_avg_speed ==
            Mul(Add(calc_speed_coef, IntVal(COEF_CALORIE_2)), self.weight)
        spent_calories ==
            Mul(TrueDiv(calc_avg_speed, IntVal(M_IN_KM)), duration_min)
    IN  spent_calories

\* Running.get_spent_calories from the mean speed ms on.
Running_calories(self, ms) ==
    LET duration_min == Mul(self.duration, IntVal(MIN_IN_HOUR))
        calc_speed_coef == Mul(IntVal(COEF_CALORIE_1), ms)
        calc_avg_speed ==
            Mul(Sub(calc_speed_coef, IntVal(COEF_CALORIE_2)), self.weight)
        spent_calories ==
            Mul(TrueDiv(calc_avg_speed, IntVal(M_IN_KM)), duration_min)
    IN  spent_calories

\* A call's outcome with a result below zero replaced by zero.
ClampAtZero(out) ==
    IF out.exc = "none" /\ DIsNeg(out.val) THEN Return(DInt(0)) ELSE out

\* Running.get_spent_calories once self.get_mean_speed() has the outcome
\* ms: its exception goes on to the caller, its value into the formula.
Running_AfterMeanSpeed(self, ms) ==
    IF ms.exc # "none" THEN ms ELSE Return(Running_calories(self, ms.val))

Running_get_spent_calories_Clamped(self) ==
    ClampAtZero(Running_AfterMeanSpeed(self, get_mean_speed(self)))

\* Running.get_spent_calories
Running_get_spent_calories(self) ==
    Running_AfterMeanSpeed(self, get_mean_speed(self))

\* True division where the code divides with //.
SportsWalking_calories_TrueDiv(self, ms, lm) ==
    LET duration_min == Mul(self.duration, IntVal(MIN_IN_HOUR))
        calc_formula == TrueDiv(Pow(ms, COEFF_SQUARE, lm), self.height)
        calc_weight_coef1 == Mul(COEFF_CALORIE_1, self.weight)
        calc_weight_coef2 == Mul(COEFF_CALORIE_2, self.weight)
        spent_calories ==
            Mul(Add(calc_weight_coef1,
                    Mul(calc_formula, calc_weight_coef2)), duration_min)
    IN  IF DIsZero(self.height)
        THEN Raise("ZeroDivisionError", <<>>)
        ELSE Return(spent_calories)

\* SportsWalking.get_spent_calories from the mean speed ms on; lm is the
\* C library's pow.
SportsWalking_calories(self, ms, lm) ==
    LET duration_min == Mul(self.duration, IntVal(MIN_IN_HOUR))
        calc_formula == FloorDiv(Pow(ms, COEFF_SQUARE, lm), self.height)
        calc_weight_coef1 == Mul(COEFF_CALORIE_1, self.weight)
        calc_weight_coef2 == Mul(COEFF_CALORIE_2, self.weight)
        spent_calories ==
            Mul(Add(calc_weight_coef1,
                    Mul(calc_formula, calc_weight_coef2)), duration_min)
    IN  IF DIsZero(self.height)
        THEN Raise("ZeroDivisionError", <<>>)
        ELSE Return(spent_calories)

SportsWalking_AfterMeanSpeed(self, ms, lm) ==
    IF ms.exc # "none" THEN ms ELSE SportsWalking_calories(self, ms.val, lm)

\* SportsWalking.get_spent_calories
SportsWalking_get_spent_calories(self, lm) ==
    SportsWalking_AfterMeanSpeed(self, get_mean_speed(self), lm)

\* Swimming.get_spent_calories from the mean speed ms on.
Swimming_calories(self, ms) ==
    LET coef_speed == Add(ms, COEF_CALORIE)
        coef_swim == Mul(coef_speed, IntVal(COEF_SWM))
        spent_calories == Mul(coef_swim, self.weight)
    IN  spent_calories

Swimming_AfterMeanSpeed(self, ms) ==
    IF ms.exc # "none" THEN ms ELSE Return(Swimming_calories(self, ms.val))

\* Swimming.get_spent_calories
Swimming_get_spent_calories(self) ==
    Swimming_AfterMeanSpeed(self, get_mean_speed(self))

\* self.get_spent_calories(): the instance's class decides.
get_spent_calories(self, lm) ==
    CASE self.cls = "Running" -> Running_get_spent_calories(self)
      [] self.cls = "SportsWalking" ->
            SportsWalking_get_spent_calories(self, lm)
      [] self.cls = "Swimming" -> Swimming_get_spent_calories(self)
      [] OTHER -> Training_get_spent_calories(self)

\* The calls of pow that self.get_spent_calories() makes, as <<x, k>>:
\* SportsWalking's one, once the mean speed is there.
PowCallsAfter(ms) ==
    IF ms.exc = "none" THEN {<<Float(ms.val), COEFF_SQUARE>>} ELSE {}

PowCalls(self) ==
    IF self.cls = "SportsWalking"
    THEN PowCallsAfter(get_mean_speed(self))
    ELSE {}

\* InfoMessage(...): the dataclass's five fields (string_ru is a constant).
InfoMessage(training_type, duration, distance, speed, calories) ==
    [training_type |-> training_type, duration |-> duration,
     distance |-> distance, speed |-> speed, calories |-> calories]

\* The InfoMessage call once its arguments sp and c are evaluated: the
\* first exception among them is what the method raises.
BuildInfo(self, d, sp, c) ==
    IF sp.exc # "none" THEN sp
    ELSE IF c.exc # "none" THEN c
    ELSE Return(InfoMessage(self.cls, self.duration, d.val, sp.val, c.val))

\* Training.show_training_info: the keyword arguments are evaluated in
\* the order written.
show_training_info(self, lm) ==
    BuildInfo(self, get_distance(self), get_mean_speed(self),
              get_spent_calories(self, lm))

---------------------------------------------------------------------------
(* InfoMessage.get_message, read_package and main.                         *)

\* Four decimal digits of r, zero-filled on the left.
Pad4(r) ==
    (IF r < 10 THEN "000" ELSE IF r < 100 THEN "00"
     ELSE IF r < 1000 THEN "0" ELSE "") \o ToString(r)

\* The decimal digits of a natural number a > 0, four at a time.
RECURSIVE BDecRest(_)
DecStep(qr) ==
    IF qr[1] = <<>>
    THEN ToString(Head0(qr[2]))
    ELSE BDecRest(qr[1]) \o Pad4(Head0(qr[2]))

BDecRest(a) == DecStep(BDivSmall(a, 10000))

\* str(a) for a natural number a.
BDec(a) == IF a = <<>> THEN "0" ELSE BDecRest(a)

\* Three digits of fp, zero-filled on the left.
Pad3(fp) ==
    (IF fp < 10 THEN "00" ELSE IF fp < 100 THEN "0" ELSE "") \o ToString(fp)

\* The text of a number of thousandths, given as qr = <<the whole units,
\* the thousandths left over>>, with a minus sign when s = -1.
Thousandths(s, qr) ==
    (IF s = -1 THEN "-" ELSE "") \o BDec(qr[1]) \o "." \o Pad3(Head0(qr[2]))

\* q2 is twice a number of thousandths, cut off, and rest says that
\* something was cut off: the nearest whole number, a tie to the even one.
RoundHalfEven(q2, rest) ==
    IF BIsOdd(q2) /\ (rest \/ BIsOdd(BDivSmall(q2, 2)[1]))
    THEN BAddC(BDivSmall(q2, 2)[1], <<>>, 1)
    ELSE BDivSmall(q2, 2)[1]

RoundThousandths(qr) == RoundHalfEven(qr[1], qr[2] # <<>>)

\* |x| * 1000 rounded to the nearest integer: the float's own binary value
\* is what is rounded (0.0005 is a little above 5/10000 and goes up).
InThousandths(x) ==
    IF x.e >= 0 THEN BShl(BMulSmall(x.m, 1000, 0), x.e)
    ELSE RoundThousandths(BShr(BMulSmall(x.m, 1000, 0), -x.e - 1))

\* float.__format__ with '.3f': the sign, the integer part, a point and
\* exactly three decimals, correctly rounded; a negative value that rounds
\* to zero keeps its sign.
FloatFmt3(x) == Thousandths(x.s, BDivSmall(InThousandths(x), 1000))

\* format(x, '.3f'): an int is formatted as the float it converts to.
Fmt3(x) == FloatFmt3(Float(x))

\* InfoMessage.get_message: string_ru with the five fields interpolated.
\* The model keeps the interpolated fields, in the template's order; the
\* template's constant text between them is left out.
get_message(info) ==
    <<info.training_type, Fmt3(info.duration), Fmt3(info.distance),
      Fmt3(info.speed), Fmt3(info.calories)>>

traning_types == [SWM |-> "Swimming", RUN |-> "Running", WLK |-> "SportsWalking"]

\* The instance built before the code is looked up.
read_package_BuildFirst(wt, args) ==
    IF wt \in DOMAIN traning_types
    THEN New(traning_types[wt], args)
    ELSE IF Len(args) # Arity("Running")
    THEN Raise("TypeError", <<>>)
    ELSE Raise("ValueError", <<wt>>)

\* WLK and SWM exchanged in the mapping.
read_package_Swapped(wt, args) ==
    IF wt \notin DOMAIN traning_types
    THEN Raise("ValueError", <<wt>>)
    ELSE New(CASE wt = "SWM" -> "SportsWalking"
               [] wt = "WLK" -> "Swimming"
               [] OTHER -> "Running", args)

\* read_package(workout_type, data); a failed call assigns nothing.
read_package(wt, args) ==
    IF wt \notin DOMAIN traning_types
    THEN Raise("ValueError", <<wt>>)
    ELSE New(traning_types[wt], args)

\* print(info.get_message()) for the outcome info of show_training_info:
\* the outcome's val is the standard output afterwards.
PrintInfo(info, out) ==
    IF info.exc # "none"
    THEN [info EXCEPT !.val = out]
    ELSE Return(Append(out, get_message(info.val)))

\* main(training)
main(t, out, lm) == PrintInfo(show_training_info(t, lm), out)

---------------------------------------------------------------------------
(* Inputs.  Sensor values are drawn position by position, ints and floats  *)
(* both; a data list is any prefix of a full list, so every length from 0  *)
(* up to one more than the longest constructor takes occurs.  Among them   *)
(* are the __main__ block's three samples, a walk whose squared speed is,  *)
(* in exact arithmetic, the height itself (13000 steps in 0.65 h at height *)
(* 169), a walk for which pow's rounding decides the quotient (speed 5.85  *)
(* at height 34.2225: the square of the float 5.85 is not a float, and the *)
(* float above it is 34.2225), and a pool whose length times its count    *)
(* takes more than 53 bits (94906267 squared), the count as an int and as  *)
(* a float.                                                                *)

MaxCalls == 2

MaxPackages == 3

TypeCodes == {"SWM", "RUN", "WLK", "XYZ", "swm"}

Actions ==
    {IntVal(720), IntVal(2000), IntVal(9000), IntVal(13000), IntVal(15000)}

Durations == {IntVal(0), IntVal(1), Dec(117, 100), Dec(65, 100)}

Weights == {IntVal(75), IntVal(80)}

Fourths ==
    {IntVal(0), IntVal(25), Dec(342225, 10000), IntVal(169), IntVal(180),
     IntVal(94906267)}

Fifths == {IntVal(40), IntVal(94906267), DInt(94906267)}

Sixths == {IntVal(1)}

FullData == Actions \X Durations \X Weights \X Fourths \X Fifths \X Sixths

DataChoices == {SubSeq(t, 1, k) : t \in FullData, k \in 0..6}

\* The list the __main__ block sets up.
HardcodedPackages ==
    << <<"SWM", <<IntVal(720), IntVal(1), IntVal(80), IntVal(25),
                  IntVal(40)>> >>,
       <<"RUN", <<IntVal(15000), IntVal(1), IntVal(75)>> >>,
       <<"WLK", <<IntVal(9000), IntVal(1), IntVal(75), IntVal(180)>> >> >>

\* The hardcoded entries; entries that fail: an unknown code, a list too
\* short for its constructor, a zero duration; and two walks whose
\* calories depend on how pow rounds the square of the speed, the height
\* being the float above the exact square (glibc's pow returns that float
\* for the first, speed 5.85, and the one below for the second, speed
\* 0.143).
DriverEntries ==
    {HardcodedPackages[i] : i \in 1..3}
        \cup { <<"XYZ", <<IntVal(720), IntVal(1), IntVal(80)>> >>,
               <<"RUN", <<IntVal(15000), IntVal(1)>> >>,
               <<"RUN", <<IntVal(15000), IntVal(0), IntVal(75)>> >>,
               <<"WLK", <<IntVal(9000), IntVal(1), IntVal(75),
                          Dec(342225, 10000)>> >>,
               <<"WLK", <<IntVal(220), IntVal(1), IntVal(75),
                          Dec(20449, 1000000)>> >> }

PackageLists == UNION {[1..k -> DriverEntries] : k \in 0..MaxPackages}

---------------------------------------------------------------------------
(* The harness: one read_package call (or one Training(...) call), then    *)
(* any calls of the instance's methods.                                    *)

Init ==
    /\ workout_type \in TypeCodes
    /\ data \in DataChoices
    /\ libm = NoCalls
    /\ training = NoObj
    /\ raised = "none"
    /\ message = <<>>
    /\ called = "none"
    /\ result = NoVal
    /\ infos = <<>>
    /\ packages = <<>>
    /\ idx = 0
    /\ pc = "start"
    /\ output = <<>>

\* training = call(...), where call is read_package or a class and out
\* is the call's outcome; a call that raises assigns nothing.
Build(name, out) ==
    /\ pc = "start"
    /\ training' = IF out.exc = "none" THEN out.val ELSE training
    /\ raised' = out.exc
    /\ message' = out.msg
    /\ called' = name
    /\ result' = NoVal
    /\ pc' = IF out.exc = "none" THEN "ready" ELSE "failed"
    /\ UNCHANGED <<workout_type, data, infos, packages, idx, output, libm>>

Read == Build("read_package", read_package(workout_type, data))

NewTraining == Build("Training", New("Training", data))

\* result = training.name(), with outcome out.
Call(name, out) ==
    /\ pc = "ready"
    /\ raised' = out.exc
    /\ message' = out.msg
    /\ called' = name
    /\ result' = out.val
    /\ UNCHANGED <<workout_type, data, packages, idx, pc, output>>

CallGetDistance ==
    /\ Call("get_distance", get_distance(training))
    /\ UNCHANGED <<training, infos, libm>>

CallGetMeanSpeed ==
    /\ Call("get_mean_speed", get_mean_speed(training))
    /\ UNCHANGED <<training, infos, libm>>

\* The duration converted to minutes in place, in self.duration.
CallGetSpentCalories_InPlace ==
    /\ pc = "ready"
    /\ \E lm \in PowAnswers(libm, PowCalls(training)) :
           /\ Call("get_spent_calories", get_spent_calories(training, lm))
           /\ libm' = lm
    /\ training' =
           [training EXCEPT !.duration = Mul(@, IntVal(MIN_IN_HOUR))]
    /\ UNCHANGED infos

\* pow answers the call the method makes, as it answered the same call
\* before if it did.
CallGetSpentCalories ==
    /\ pc = "ready"
    /\ \E lm \in PowAnswers(libm, PowCalls(training)) :
           /\ Call("get_spent_calories", get_spent_calories(training, lm))
           /\ libm' = lm
    /\ UNCHANGED <<training, infos>>

\* The InfoMessage a call returned joins those returned before.
Returned(out) == IF out.exc = "none" THEN Append(infos, out.val) ELSE infos

ShowTrainingInfo(lm, out) ==
    /\ Call("show_training_info", out)
    /\ infos' = Returned(out)
    /\ libm' = lm

CallShowTrainingInfo ==
    /\ pc = "ready"
    /\ Len(infos) < MaxCalls
    /\ \E lm \in PowAnswers(libm, PowCalls(training)) :
           ShowTrainingInfo(lm, show_training_info(training, lm))
    /\ UNCHANGED training

\* result = info.get_message(), for the InfoMessage returned last.
CallGetMessage ==
    /\ pc = "ready"
    /\ infos # <<>>
    /\ called' = "get_message"
    /\ result' = get_message(infos[Len(infos)])
    /\ raised' = "none"
    /\ message' = <<>>
    /\ UNCHANGED <<workout_type, data, training, infos, packages, idx, pc,
                   output, libm>>

Next ==
    \/ Read
    \/ NewTraining
    \/ CallGetDistance
    \/ CallGetMeanSpeed
    \/ CallGetSpentCalories
    \/ CallShowTrainingInfo
    \/ CallGetMessage

Spec == Init /\ [][Next]_vars

---------------------------------------------------------------------------
(* The driver: the __main__ block's loop over packages.                    *)

DriverInit ==
    /\ packages \in PackageLists
    /\ libm = NoCalls
    /\ idx = 1
    /\ pc = "loop"
    /\ output = <<>>
    /\ workout_type = "none"
    /\ data = <<>>
    /\ training = NoObj
    /\ raised = "none"
    /\ message = <<>>
    /\ called = "none"
    /\ result = NoVal
    /\ infos = <<>>

\* The loop's next entry is unpacked into workout_type and data.
Unpack ==
    /\ workout_type' = packages[idx][1]
    /\ data' = packages[idx][2]

\* A failed read_package caught, and the loop carried on with the next
\* entry.
LoopRead_SkipFailed ==
    /\ pc = "loop"
    /\ idx <= Len(packages)
    /\ Unpack
    /\ \E out \in {read_package(packages[idx][1], packages[idx][2])} :
           /\ called' = "read_package"
           /\ raised' = "none"
           /\ message' = <<>>
           /\ training' = IF out.exc = "none" THEN out.val ELSE training
           /\ pc' = IF out.exc = "none" THEN "main" ELSE "loop"
           /\ idx' = IF out.exc = "none" THEN idx ELSE idx + 1
    /\ UNCHANGED <<result, infos, packages, output, libm>>

\* for workout_type, data in packages: training = read_package(...)
\* An exception is not caught: the program ends with it.
LoopRead ==
    /\ pc = "loop"
    /\ idx <= Len(packages)
    /\ Unpack
    /\ \E out \in {read_package(packages[idx][1], packages[idx][2])} :
           /\ called' = "read_package"
           /\ raised' = out.exc
           /\ message' = out.msg
           /\ training' = IF out.exc = "none" THEN out.val ELSE training
           /\ pc' = IF out.exc = "none" THEN "main" ELSE "crashed"
    /\ UNCHANGED <<result, infos, packages, idx, output, libm>>

\* main(training) with outcome out, then on to the next entry.
Main(lm, out) ==
    /\ called' = "main"
    /\ raised' = out.exc
    /\ message' = out.msg
    /\ output' = out.val
    /\ pc' = IF out.exc = "none" THEN "loop" ELSE "crashed"
    /\ idx' = IF out.exc = "none" THEN idx + 1 ELSE idx
    /\ libm' = lm

\* pow answers the call main makes, as it answered the same call earlier
\* in the run if it did; another call it answers on its own.
LoopMain ==
    /\ pc = "main"
    /\ \E lm \in PowAnswers(libm, PowCalls(training)) :
           Main(lm, main(training, output, lm))
    /\ UNCHANGED <<workout_type, data, training, result, infos, packages>>

\* The list is exhausted: the program ends.
LoopEnd ==
    /\ pc = "loop"
    /\ idx > Len(packages)
    /\ pc' = "done"
    /\ UNCHANGED <<workout_type, data, training, raised, message, called,
                   result, infos, packages, idx, output, libm>>

DriverNext == LoopRead \/ LoopMain \/ LoopEnd

DriverSpec == DriverInit /\ [][DriverNext]_vars
---------------------------------------------------------------------------
(* Properties of the factory (checked under Spec).                         *)

\* The instance, or the failure, came from read_package and not from
\* calling the base class: no read_package call yields a Training.
ViaReadPackage ==
    \/ pc = "failed" /\ called = "read_package"
    \/ pc = "ready" /\ training.cls # "Training"

\* C1: read_package raises ValueError for every type code other than SWM,
\* RUN and WLK, whatever the data (empty and wrong-length lists included):
\* no instance is constructed and the error's text carries the code.
C1_UnknownCodeRaisesValueError ==
    (ViaReadPackage /\ workout_type \notin {"SWM", "RUN", "WLK"})
        => /\ pc = "failed"
           /\ raised = "ValueError"
           /\ training = NoObj
           /\ message = <<workout_type>>

C1_Witness ==
    /\ pc = "failed"
    /\ called = "read_package"
    /\ workout_type = "XYZ"
    /\ data = <<>>
    /\ raised = "ValueError"

\* C2: for a recognised code and data of the constructor's length,
\* read_package returns an instance of the mapped class (SWM Swimming, RUN
\* Running, WLK SportsWalking) with the data bound to its fields in
\* constructor order; data of any other length fails with TypeError, not
\* ValueError, and no instance.
C2_MappedClassAndPositionalFields ==
    ViaReadPackage =>
        /\ workout_type = "RUN" =>
              IF Len(data) = 3
              THEN pc = "ready"
                   /\ training = [cls |-> "Running", action |-> data[1],
                                  duration |-> data[2], weight |-> data[3]]
              ELSE pc = "failed" /\ raised = "TypeError" /\ training = NoObj
        /\ workout_type = "WLK" =>
              IF Len(data) = 4
              THEN pc = "ready"
                   /\ training = [cls |-> "SportsWalking",
                                  action |-> data[1], duration |-> data[2],
                                  weight |-> data[3], height |-> data[4]]
              ELSE pc = "failed" /\ raised = "TypeError" /\ training = NoObj
        /\ workout_type = "SWM" =>
              IF Len(data) = 5
              THEN pc = "ready"
                   /\ training = [cls |-> "Swimming", action |-> data[1],
                                  duration |-> data[2], weight |-> data[3],
                                  length_pool |-> data[4],
                                  count_pool |-> data[5]]
              ELSE pc = "failed" /\ raised = "TypeError" /\ training = NoObj

C2_Witness ==
    /\ pc = "ready"
    /\ workout_type = "SWM"
    /\ training.cls = "Swimming"
    /\ training.length_pool = IntVal(25)
    /\ training.count_pool = IntVal(40)

---------------------------------------------------------------------------
(* Properties of the formulas (checked under Spec).  A formula of the      *)
(* specification is evaluated as Python evaluates it, its operations in    *)
(* the order it writes them.  Where that is the code's order the results   *)
(* are the same float; where it is not they are Close.                     *)

\* The last call returned a value, from method m.
Returned_From(m) == pc = "ready" /\ called = m /\ raised = "none"

\* |x|
DAbs(x) == [x EXCEPT !.s = 1]

\* x > 0
DIsPos(x) == ~DIsZero(x) /\ x.s = 1

\* |x - y| <= tol
Within(x, y, tol) == ~DLess(tol, DAbs(DSub(x, y)))

\* What "approximately" allows around a value given to two decimals.
ApproxTol == Dec(1, 100)

\* Floating-point tolerance: x is y to nine significant digits.
RelTol == Dec(1, 1000000000)

Close(x, y) == Within(x, y, DMul(RelTol, DAbs(y)))

RunningSample ==
    TrainingInit("Running", IntVal(15000), IntVal(1), IntVal(75))

WalkingSample ==
    SportsWalkingInit(IntVal(9000), IntVal(1), IntVal(75), IntVal(180))

SwimmingSample ==
    SwimmingInit(IntVal(720), IntVal(1), IntVal(80), IntVal(25), IntVal(40))

\* (18 * 9.75 - 20) * 75 / 1000 * 60
RunningSampleFormula ==
    Mul(TrueDiv(Mul(Sub(Mul(IntVal(18), Dec(975, 100)), IntVal(20)),
                    IntVal(75)), IntVal(1000)), IntVal(60))

\* C3 as stated: for Running(15000, 1, 75) the distance is 9.75 km, the
\* mean speed 9.75 km/h and the calories (18*9.75 - 20)*75/1000*60, which
\* is approximately 700.05.
C3_Original ==
    training = RunningSample =>
        /\ Returned_From("get_distance") => result = Dec(975, 100)
        /\ Returned_From("get_mean_speed") => result = Dec(975, 100)
        /\ Returned_From("get_spent_calories") =>
              /\ result = RunningSampleFormula
              /\ Within(result, Dec(70005, 100), ApproxTol)

\* C3 amended: for Running(15000, 1, 75) the distance is 9.75 km, the mean
\* speed 9.75 km/h and the calories (18*9.75 - 20)*75/1000*60, which is
\* 699.75.
C3_RunningSampleIs699_75 ==
    training = RunningSample =>
        /\ Returned_From("get_distance") => result = Dec(975, 100)
        /\ Returned_From("get_mean_speed") => result = Dec(975, 100)
        /\ Returned_From("get_spent_calories") =>
              /\ result = RunningSampleFormula
              /\ result = Dec(69975, 100)

C3_Witness ==
    /\ training = RunningSample
    /\ Returned_From("get_spent_calories")
    /\ result = Dec(69975, 100)

\* C4 as stated: for Swimming(720, 1, 80, 25, 40), get_distance() and the
\* summary's distance field are 0.468 km.
C4_Original ==
    training = SwimmingSample =>
        /\ Returned_From("get_distance") =>
              Within(result, Dec(468, 1000), ApproxTol)
        /\ Returned_From("show_training_info") =>
              Within(result.distance, Dec(468, 1000), ApproxTol)

\* C4 amended: for Swimming(720, 1, 80, 25, 40), get_distance() and the
\* summary's distance field are 720 * 1.38 / 1000 = 0.9936 km (as a float,
\* 0.9935999999999999).
C4_SwimmingSampleDistanceIs0_9936 ==
    training = SwimmingSample =>
        /\ Returned_From("get_distance") =>
              /\ result
                    = TrueDiv(Mul(IntVal(720), Dec(138, 100)), IntVal(1000))
              /\ Close(result, Dec(9936, 10000))
        /\ Returned_From("show_training_info") =>
              /\ result.distance
                    = TrueDiv(Mul(IntVal(720), Dec(138, 100)), IntVal(1000))
              /\ Close(result.distance, Dec(9936, 10000))

C4_Witness ==
    /\ training = SwimmingSample
    /\ Returned_From("show_training_info")
    /\ Fmt3(result.distance) = "0.994"

\* ((0.035 * w) + (floor_div(ms^2, h) * 0.029 * w)) * (dur * 60)
WalkingFormula(ms, w, h, dur, lm) ==
    Mul(Add(Mul(Dec(35, 1000), w),
            Mul(Mul(FloorDiv(Pow(ms, 2, lm), h), Dec(29, 1000)), w)),
        Mul(dur, IntVal(60)))

\* 0 <= sq < h
BelowHeight(sq, h) == ~DIsNeg(sq) /\ DLess(sq, Float(h))

\* C5: SportsWalking's calories are ((0.035 * weight) + (floor_div(
\* mean_speed^2, height) * 0.029 * weight)) * (duration * 60), mean_speed
\* being what get_mean_speed() returns; so whenever 0 <= mean_speed^2 <
\* height they are 0.035 * weight * duration * 60; and for
\* SportsWalking(9000, 1, 75, 180) the distance is 5.85 km, the mean speed
\* 5.85 km/h and the calories 157.5.
C5_WalkingCaloriesFloorDivision ==
    /\ (training.cls = "SportsWalking"
        /\ Returned_From("get_spent_calories")) =>
          /\ Close(result,
                   WalkingFormula(get_mean_speed(training).val,
                                  training.weight, training.height,
                                  training.duration, libm))
          /\ BelowHeight(Pow(get_mean_speed(training).val, 2, libm),
                         training.height)
                => Close(result,
                         Mul(Mul(Mul(Dec(35, 1000), training.weight),
                                 training.duration), IntVal(60)))
    /\ training = WalkingSample =>
          /\ Returned_From("get_distance") => result = Dec(585, 100)
          /\ Returned_From("get_mean_speed") => result = Dec(585, 100)
          /\ Returned_From("get_spent_calories") =>
                Close(result, Dec(1575, 10))

C5_Witness ==
    /\ training = WalkingSample
    /\ Returned_From("get_spent_calories")
    /\ Fmt3(result) = "157.500"

\* C6: for every variant get_distance() returns action * step / 1000,
\* with step 0.65 for Running and SportsWalking and 1.38 for Swimming.
C6_DistanceUsesVariantStep ==
    Returned_From("get_distance") =>
        /\ training.cls \in {"Running", "SportsWalking"} =>
              result
                  = TrueDiv(Mul(training.action, Dec(65, 100)), IntVal(1000))
        /\ training.cls = "Swimming" =>
              result
                  = TrueDiv(Mul(training.action, Dec(138, 100)), IntVal(1000))

C6_Witness ==
    /\ Returned_From("get_distance")
    /\ training.cls = "Swimming"
    /\ training.action = IntVal(9000)
    /\ Fmt3(result) = "12.420"

\* (length_pool * count_pool / 1000) / duration
SwimmingSpeedFormula(t) ==
    TrueDiv(TrueDiv(Mul(t.length_pool, t.count_pool), IntVal(1000)),
            t.duration)

\* C7: Swimming's mean speed is (length_pool * count_pool / 1000) /
\* duration and its calories (mean_speed + 1.1) * 2 * weight, both the same
\* whatever the action; Running and SportsWalking have mean speed
\* get_distance() / duration; for length_pool 25, count_pool 40, duration
\* 1 and weight 80 the speed is 1.0 km/h and the calories are 336.0.
C7_SwimmingSpeedIgnoresAction ==
    /\ (training.cls = "Swimming" /\ Returned_From("get_mean_speed")) =>
          /\ result = SwimmingSpeedFormula(training)
          /\ \A a \in Actions :
                get_mean_speed([training EXCEPT !.action = a]).val = result
          /\ (training.length_pool = IntVal(25)
              /\ training.count_pool = IntVal(40)
              /\ training.duration = IntVal(1)) => result = DInt(1)
    /\ (training.cls = "Swimming" /\ Returned_From("get_spent_calories")) =>
          /\ result = Mul(Mul(Add(SwimmingSpeedFormula(training),
                                   Dec(11, 10)), IntVal(2)), training.weight)
          /\ \A a \in Actions :
                get_spent_calories([training EXCEPT !.action = a], libm).val
                    = result
          /\ (training.length_pool = IntVal(25)
              /\ training.count_pool = IntVal(40)
              /\ training.duration = IntVal(1)
              /\ training.weight = IntVal(80)) => result = DInt(336)
    /\ (training.cls \in {"Running", "SportsWalking"}
        /\ Returned_From("get_mean_speed")) =>
          result = TrueDiv(get_distance(training).val, training.duration)

C7_Witness ==
    /\ training.cls = "Swimming"
    /\ training.action = IntVal(15000)
    /\ training.length_pool = IntVal(25)
    /\ training.count_pool = IntVal(40)
    /\ training.duration = IntVal(1)
    /\ training.weight = IntVal(80)
    /\ Returned_From("get_spent_calories")
    /\ result = DInt(336)

\* C8: however show_training_info, get_distance, get_mean_speed and
\* get_spent_calories are interleaved on one instance, every call leaves
\* each field of the instance as it was, and all the InfoMessages
\* returned are equal.
C8_CallsLeaveInstanceAndMetricsAlone ==
    [][ /\ pc = "ready" => training' = training
        /\ \A i, j \in DOMAIN infos' : infos'[i] = infos'[j] ]_vars

C8_Witness ==
    /\ Len(infos) >= 2
    /\ infos[1] = infos[2]
    /\ called = "get_spent_calories"
    /\ training \in {RunningSample, WalkingSample, SwimmingSample}

\* 18 * (action * 0.65 / 1000 / duration)
RunningSpeedCoef(t) ==
    Mul(IntVal(18),
        TrueDiv(TrueDiv(Mul(t.action, Dec(65, 100)), IntVal(1000)),
                t.duration))

\* C10: for Running with action >= 0, duration > 0 and weight > 0 the
\* calories are negative exactly when 18 * mean_speed < 20, zero exactly
\* when 18 * mean_speed = 20 and positive otherwise, the product being the
\* float the code computes; the summary carries the value as it is,
\* negative ones included.
C10_RunningCaloriesSign ==
    (/\ pc = "ready"
     /\ training.cls = "Running"
     /\ ~DIsNeg(training.action)
     /\ DIsPos(training.duration)
     /\ DIsPos(training.weight)) =>
        /\ Returned_From("get_spent_calories") =>
              /\ DIsNeg(result)
                    <=> DLess(RunningSpeedCoef(training), DInt(20))
              /\ DIsZero(result) <=> RunningSpeedCoef(training) = DInt(20)
              /\ DIsPos(result)
                    <=> DLess(DInt(20), RunningSpeedCoef(training))
        /\ Returned_From("show_training_info") =>
              /\ DIsNeg(result.calories)
                    <=> DLess(RunningSpeedCoef(training), DInt(20))
              /\ DIsZero(result.calories)
                    <=> RunningSpeedCoef(training) = DInt(20)

C10_Witness ==
    /\ training =
           TrainingInit("Running", IntVal(720), IntVal(1), IntVal(75))
    /\ Returned_From("show_training_info")
    /\ DIsNeg(result.calories)
    /\ Fmt3(result.calories) = "-52.092"

---------------------------------------------------------------------------
(* Properties of the driver (checked under DriverSpec).                    *)

\* Entry e builds and summarises without an exception.
EntryWorks(e) ==
    /\ read_package(e[1], e[2]).exc = "none"
    /\ show_training_info(read_package(e[1], e[2]).val, libm).exc = "none"

\* The line the driver prints for entry e.
EntryLine(e) ==
    get_message(show_training_info(read_package(e[1], e[2]).val, libm).val)

C9_Order ==
    /\ Len(output) <= Len(packages)
    /\ \A k \in 1..Len(output) :
          EntryWorks(packages[k]) /\ output[k] = EntryLine(packages[k])
    /\ pc \in {"loop", "main", "crashed"} => Len(output) = idx - 1
    /\ pc = "main" =>
          training = read_package(packages[idx][1], packages[idx][2]).val
    /\ pc = "crashed" =>
          /\ idx <= Len(packages)
          /\ ~EntryWorks(packages[idx])
          /\ raised # "none"
    /\ pc = "done" => Len(output) = Len(packages)
    /\ (pc = "done" /\ packages = HardcodedPackages) =>
          output = << <<"Swimming", "1.000", "0.994", "1.000", "336.000">>,
                      <<"Running", "1.000", "9.750", "9.750", "699.750">>,
                      <<"SportsWalking", "1.000", "5.850", "5.850",
                        "157.500">> >>

\* C9: the driver takes the entries in input order and prints one line
\* per entry, entry i before entry i+1 is built; when building or
\* summarising an entry fails nothing is printed for it and the program
\* ends there, with no later entry processed; the hardcoded list prints
\* Swimming, Running, SportsWalking.
C9_DriverInOrderAndStopsAtFailure ==
    []C9_Order /\ [][pc # "crashed"]_vars

C9_Witness ==
    /\ pc = "done"
    /\ packages = HardcodedPackages
    /\ Len(output) = 3

===========================================================================
